---- MODULE Spec2Model ----
(***************************************************************************)
(* toadjacency.py: converts an edge list (one "source,target,type" line    *)
(* per edge) into adjacency lists written to standard output.              *)
(*                                                                         *)
(* Text is modelled character by character: a string is a sequence of      *)
(* one-character strings, so that strip(), split(',') and the writes to    *)
(* standard output are computed the way the interpreter computes them.     *)
(*                                                                         *)
(* The script is a Python 2 script (#!/usr/bin/python, print statement in  *)
(* the comment of line 7).  The order in which a Python 2 dict yields its  *)
(* keys is fixed by the interpreter, not by the program; from CPython 3.7  *)
(* on it is the insertion order.  The model therefore lets keys() return   *)
(* the keys in any order the interpreter may choose.                       *)
(***************************************************************************)
EXTENDS Integers, Sequences, FiniteSets, TLC

VARIABLES run, twin

vars == <<run, twin>>

\* Largest number of lines of an input file.
MaxLines == 3

(***************************************************************************)
(* Input files.  A file is described by what was put on each of its lines  *)
(* (the fields joined by commas, optionally padded with blanks) and is     *)
(* rendered to text; the program only ever sees the text.                  *)
(***************************************************************************)
a == <<"a">>
b == <<"b">>
c == <<"c">>

Ids == {a, b, c}

\* The whitespace characters that occur in the files.
Blanks == {" ", "\n", "\t"}

\* The field lists of lines with exactly three fields: every edge between
\* the identifiers with type x, and the edge b -> c with type y.
Triples == {<<s, t, <<"x">> >> : s \in Ids, t \in Ids} \cup {<<b, c, <<"y">> >>}

\* Lines with two fields, with four fields, and with no text at all.
Malformed == {<<a, b>>, <<a, b, <<"x">>, <<"y">> >>, << <<>> >>}

\* Lines written with blanks around them: a self-loop with an empty type,
\* and a line of blanks only.
Padded == {<<b, b, <<>> >>, << <<>> >>}

\* A line as written to the file: its fields and whether it is padded.
LineSpecs ==
    {[fields |-> f, pad |-> FALSE] : f \in Triples \cup Malformed}
        \cup {[fields |-> f, pad |-> TRUE] : f \in Padded}

RECURSIVE Join(_)
\* The fields joined by commas.
Join(fields) ==
    IF Len(fields) = 1 THEN fields[1]
    ELSE fields[1] \o <<",">> \o Join(Tail(fields))

\* The text of a line as the file iterator yields it, newline included.
Render(ls) ==
    IF ls.pad THEN <<" ">> \o Join(ls.fields) \o <<"\t", "\n">>
    ELSE Join(ls.fields) \o <<"\n">>

\* All the input descriptions of at most MaxLines lines.
Inputs == UNION {[1..n -> LineSpecs] : n \in 0..MaxLines}

(***************************************************************************)
(* line.strip().split(',')                                                 *)
(***************************************************************************)
RECURSIVE LStrip(_)
LStrip(s) ==
    IF s # <<>> /\ Head(s) \in Blanks THEN LStrip(Tail(s)) ELSE s

RECURSIVE RStrip(_)
RStrip(s) ==
    IF s # <<>> /\ s[Len(s)] \in Blanks THEN RStrip(SubSeq(s, 1, Len(s) - 1)) ELSE s

\* str.strip(): leading and trailing whitespace removed.
Strip(s) == RStrip(LStrip(s))

RECURSIVE SplitFrom(_, _, _, _)
\* Scans s for the separator sep; cur is the field being read, acc the
\* fields already closed.
SplitFrom(s, sep, cur, acc) ==
    IF s = <<>> THEN Append(acc, cur)
    ELSE IF Head(s) = sep THEN SplitFrom(Tail(s), sep, <<>>, Append(acc, cur))
    ELSE SplitFrom(Tail(s), sep, Append(cur, Head(s)), acc)

\* str.split(sep): the fields between the separators; '' gives [''].
SplitOn(s, sep) == SplitFrom(s, sep, <<>>, <<>>)

\* line.strip().split(',')
Split(s) == SplitOn(s, ",")

\* A tuple assignment that also takes the first three of more values.
Unpacks_AtLeastThree(fields) == Len(fields) >= 3

\* The tuple assignment (source,target,type) = ... succeeds for three values only.
Unpacks(fields) == Len(fields) = 3

(***************************************************************************)
(* The dict adjacency_lists: a sequence of entries in insertion order,     *)
(* each entry a key and the list stored under it.                          *)
(***************************************************************************)
EmptyDict == <<>>

Contains(d, k) == \E i \in DOMAIN d : d[i].key = k

KeySet(d) == {d[i].key : i \in DOMAIN d}

\* d[k], for a key of d.
Lookup(d, k) == d[CHOOSE i \in DOMAIN d : d[i].key = k].val

\* d[k] = [] without the membership test, on a dict that keeps every entry.
EnsureKey_Always(d, k) == Append(d, [key |-> k, val |-> <<>>])

\* d[k] = [] without the membership test: a list already stored is lost.
EnsureKey_Reset(d, k) ==
    IF Contains(d, k)
    THEN [i \in DOMAIN d |-> IF d[i].key = k THEN [d[i] EXCEPT !.val = <<>>] ELSE d[i]]
    ELSE Append(d, [key |-> k, val |-> <<>>])

\* if k not in d: d[k] = []
EnsureKey(d, k) ==
    IF Contains(d, k) THEN d ELSE Append(d, [key |-> k, val |-> <<>>])

\* d[s].insert(0, t)
AppendTo_Prepend(d, s, t) ==
    [i \in DOMAIN d |->
        IF d[i].key = s THEN [d[i] EXCEPT !.val = <<t>> \o @] ELSE d[i]]

\* d[s].append(t); d[t].append(s)
AppendTo_Undirected(d, s, t) ==
    [i \in DOMAIN d |->
        IF d[i].key = s THEN [d[i] EXCEPT !.val = Append(@, t)]
        ELSE IF d[i].key = t THEN [d[i] EXCEPT !.val = Append(@, s)]
        ELSE d[i]]

\* d[s].append(t)
AppendTo(d, s, t) ==
    [i \in DOMAIN d |->
        IF d[i].key = s THEN [d[i] EXCEPT !.val = Append(@, t)] ELSE d[i]]

\* The loop body without lines 12-13: the target is not registered.
AddEdge_NoTarget(d, fields) ==
    AppendTo(EnsureKey(d, fields[1]), fields[1], fields[2])

\* The loop body with lines 12-13 ahead of lines 10-11.
AddEdge_TargetFirst(d, fields) ==
    AppendTo(EnsureKey(EnsureKey(d, fields[2]), fields[1]), fields[1], fields[2])

\* The loop body appending the third field where it should append the second.
AddEdge_AppendsType(d, fields) ==
    AppendTo(EnsureKey(EnsureKey(d, fields[1]), fields[2]), fields[1], fields[3])

\* The body of the read loop for one line that unpacks into (source, target, type).
AddEdge(d, fields) ==
    LET source == fields[1]
        target == fields[2]
    IN  AppendTo(EnsureKey(EnsureKey(d, source), target), source, target)

(***************************************************************************)
(* One execution of the script.                                            *)
(*   input   what the file was rendered from (never read by the program)   *)
(*   file    the lines of the file, as the file iterator yields them       *)
(*   pos     the number of lines the read loop has consumed                *)
(*   adjacency_lists  the dict                                             *)
(*   keys    the list adjacency_lists.keys() returned                      *)
(*   written the number of keys whose line has been written                *)
(*   stdout  the characters written to standard output                     *)
(*   pc      "build", "output", "done" (exit status 0) or "error"          *)
(***************************************************************************)
Start(inp) ==
    [input |-> inp,
     file |-> [i \in DOMAIN inp |-> Render(inp[i])],
     pos |-> 0,
     adjacency_lists |-> EmptyDict,
     keys |-> <<>>,
     written |-> 0,
     stdout |-> <<>>,
     pc |-> "build"]

\* The read loop has another line to read.
MoreLines(r) == r.pos < Len(r.file)

\* The fields of the line the read loop is about to process.
NextFields(r) == Split(Strip(r.file[r.pos + 1]))

CanProcess(r) == r.pc = "build" /\ MoreLines(r) /\ Unpacks(NextFields(r))

DoProcess(r) ==
    [r EXCEPT !.pos = @ + 1,
              !.adjacency_lists = AddEdge(@, NextFields(r))]

CanFail(r) == r.pc = "build" /\ MoreLines(r) /\ ~Unpacks(NextFields(r))

\* ValueError from the tuple assignment: the interpreter exits, nothing is written.
DoFail(r) == [r EXCEPT !.pc = "error"]

CanKeys(r) == r.pc = "build" /\ ~MoreLines(r)

\* The orders in which an interpreter may rank the identifiers of S.
Orderings(S) ==
    {p \in [1..Cardinality(S) -> S] : \A i, j \in 1..Cardinality(S) : p[i] = p[j] => i = j}

\* d.keys(): the keys of d, in the interpreter's order.
KeysView(d, order) == SelectSeq(order, LAMBDA k : Contains(d, k))

DoKeys(r, order) ==
    [r EXCEPT !.keys = KeysView(r.adjacency_lists, order), !.pc = "output"]

CanWrite(r) == r.pc = "output" /\ r.written < Len(r.keys)

RECURSIVE WriteTargets(_)
\* The inner loop: ' ' and the target, for each target in turn.
WriteTargets(targets) ==
    IF targets = <<>> THEN <<>>
    ELSE <<" ">> \o Head(targets) \o WriteTargets(Tail(targets))

RECURSIVE JoinTargets(_)
JoinTargets(targets) ==
    IF targets = <<>> THEN <<>>
    ELSE Head(targets) \o <<" ">> \o JoinTargets(Tail(targets))

\* An output loop that writes the space after each word instead of before.
WriteLine_SpaceAfter(d, source) ==
    source \o <<" ">> \o JoinTargets(Lookup(d, source)) \o <<"\n">>

\* What one pass of the output loop writes for the key source.
WriteLine(d, source) == source \o WriteTargets(Lookup(d, source)) \o <<"\n">>

DoWrite(r) ==
    [r EXCEPT !.written = @ + 1,
              !.stdout = @ \o WriteLine(r.adjacency_lists, r.keys[r.written + 1])]

CanFinish(r) == r.pc = "output" /\ r.written = Len(r.keys)

\* A script that exits with an error when it has written nothing.
DoFinish_ErrorIfEmpty(r) ==
    [r EXCEPT !.pc = IF r.stdout = <<>> THEN "error" ELSE "done"]

\* The script runs off its end: exit status 0.
DoFinish(r) == [r EXCEPT !.pc = "done"]

(***************************************************************************)
(* The state: the execution `run`, and a second execution `twin` of the    *)
(* same script under the same interpreter, stepping together with it.      *)
(* Under Spec the twin reads the same file; under SpecPair it reads a      *)
(* file that differs in the type fields only.                              *)
(***************************************************************************)
Init == \E inp \in Inputs : run = Start(inp) /\ twin = Start(inp)

\* The type fields a second file may carry instead.
TwinTypes == {<<"x">>, <<"y", "x">>, <<>>}

\* The lines of the files that are read twice.
PairLineSpecs ==
    {[fields |-> f, pad |-> FALSE] : f \in {<<a, b, <<"x">> >>, <<b, a, <<"x">> >>, <<b, c, <<"y">> >>, <<a, b>>}}
        \cup {[fields |-> <<b, b, <<>> >>, pad |-> TRUE]}

PairInputs == UNION {[1..n -> PairLineSpecs] : n \in 0..MaxLines}

\* ls with the type field replaced by ty, when it has one.
Retyped(ls, ty) ==
    IF Len(ls.fields) = 3 THEN [ls EXCEPT !.fields[3] = ty] ELSE ls

\* The inputs with as many lines as inp and the same sources and targets.
Retypings(inp) ==
    {[i \in DOMAIN inp |-> Retyped(inp[i], tys[i])] : tys \in [DOMAIN inp -> TwinTypes]}

InitPair ==
    \E inp \in PairInputs : \E inp2 \in Retypings(inp) :
        run = Start(inp) /\ twin = Start(inp2)

\* One pass of the read loop (lines 8-15) over a line of three fields.
ProcessLine ==
    /\ CanProcess(run) /\ CanProcess(twin)
    /\ run' = DoProcess(run)
    /\ twin' = DoProcess(twin)

\* The read loop meets a line that does not unpack into three values (line 9).
Fail ==
    /\ CanFail(run) /\ CanFail(twin)
    /\ run' = DoFail(run)
    /\ twin' = DoFail(twin)

\* The read loop is over; adjacency_lists.keys() is evaluated (line 17).
Keys ==
    /\ CanKeys(run) /\ CanKeys(twin)
    /\ \E order \in Orderings(KeySet(run.adjacency_lists) \cup KeySet(twin.adjacency_lists)) :
          /\ run' = DoKeys(run, order)
          /\ twin' = DoKeys(twin, order)

\* One pass of the output loop (lines 17-22).
WriteKey ==
    /\ CanWrite(run) /\ CanWrite(twin)
    /\ run' = DoWrite(run)
    /\ twin' = DoWrite(twin)

\* The output loop is over and the script ends.
Finish ==
    /\ CanFinish(run) /\ CanFinish(twin)
    /\ run' = DoFinish(run)
    /\ twin' = DoFinish(twin)

Next == ProcessLine \/ Fail \/ Keys \/ WriteKey \/ Finish

Spec == Init /\ [][Next]_vars

\* Two executions over files that differ in the type fields only.
SpecPair == InitPair /\ [][Next]_vars

(***************************************************************************)
(* What the input says, read off the description the file was rendered     *)
(* from and not off the text the program parses.                           *)
(***************************************************************************)
ThreeFields(ls) == Len(ls.fields) = 3

Src(ls) == ls.fields[1]

Tgt(ls) == ls.fields[2]

\* The lines the read loop has fully processed.
Processed(r) == SubSeq(r.input, 1, r.pos)

\* Every line of the file has been processed.
Completed(r) == r.pos = Len(r.input)

RECURSIVE TargetsOf(_, _)
\* The targets of the lines whose source is n, in the order of the lines.
TargetsOf(n, lines) ==
    IF lines = <<>> THEN <<>>
    ELSE (IF Src(Head(lines)) = n THEN <<Tgt(Head(lines))>> ELSE <<>>)
             \o TargetsOf(n, Tail(lines))

\* The identifiers that are the source or the target of some line.
Mentioned(lines) ==
    {Src(lines[i]) : i \in DOMAIN lines} \cup {Tgt(lines[i]) : i \in DOMAIN lines}

Occurs(x, seq) == \E i \in DOMAIN seq : seq[i] = x

\* seq, with x added at the end unless it occurs already.
Noted(seq, x) == IF Occurs(x, seq) THEN seq ELSE Append(seq, x)

RECURSIVE FirstSeenFrom(_, _)
FirstSeenFrom(lines, seen) ==
    IF lines = <<>> THEN seen
    ELSE FirstSeenFrom(Tail(lines), Noted(Noted(seen, Src(Head(lines))), Tgt(Head(lines))))

\* The identifiers in the order of their first appearance, the source of a
\* line before its target.
FirstSeen(lines) == FirstSeenFrom(lines, <<>>)

\* The list stored under n; the empty list for an identifier that is no key.
Stored(d, n) == IF Contains(d, n) THEN Lookup(d, n) ELSE <<>>

\* The keys of d in the order of their insertion.
EntryKeys(d) == [i \in DOMAIN d |-> d[i].key]

RECURSIVE Total(_)
\* The number of elements of all the lists of d together.
Total(d) == IF d = <<>> THEN 0 ELSE Len(Head(d).val) + Total(Tail(d))

\* The lines written to standard output, without their newlines.
OutLines(out) ==
    LET pieces == SplitOn(out, "\n") IN SubSeq(pieces, 1, Len(pieces) - 1)

\* Standard output is empty or ends with a newline.
Terminated(out) == out = <<>> \/ out[Len(out)] = "\n"

\* The read loop processes one more line in this step.
LineRead == run.pc = "build" /\ run'.pc = "build" /\ run'.pos = run.pos + 1

\* The input of the scenario a,b,x / b,c,y / a,c,x.
Scenario ==
    <<[fields |-> <<a, b, <<"x">> >>, pad |-> FALSE],
      [fields |-> <<b, c, <<"y">> >>, pad |-> FALSE],
      [fields |-> <<a, c, <<"x">> >>, pad |-> FALSE]>>

(***************************************************************************)
(* The claims.                                                             *)
(***************************************************************************)

\* C1: once every line of a file of three-field lines has been processed,
\* the list stored under each node is the list of the targets of exactly the
\* lines whose source is that node, in file order, duplicates kept, and
\* nothing else.
C1_AdjacencyInFileOrder ==
    Completed(run) =>
        \A n \in KeySet(run.adjacency_lists) \cup Ids :
            Stored(run.adjacency_lists, n) = TargetsOf(n, run.input)

\* The edge a -> b occurs twice with a -> c between the two.
C1_Witness ==
    /\ run.pc = "done"
    /\ Stored(run.adjacency_lists, a) = <<b, c, b>>

\* C2: once every line has been processed the keys of the dict are exactly
\* the identifiers that are the source or the target of some line, and each
\* of them is the key of one entry only.
C2_KeysAreTheIdentifiers ==
    Completed(run) =>
        LET d == run.adjacency_lists
        IN  /\ KeySet(d) = Mentioned(run.input)
            /\ \A i, j \in DOMAIN d : d[i].key = d[j].key => i = j

\* Three lines, and c is a key although no line has it as its source.
C2_Witness ==
    /\ run.pc = "done"
    /\ Len(run.input) = 3
    /\ KeySet(run.adjacency_lists) = Ids
    /\ \A i \in DOMAIN run.input : Src(run.input[i]) # c

\* s occurs in the list of t exactly when a processed line has source t and
\* target s.
DirectedAt(r) ==
    \A s, t \in Ids :
        Occurs(s, Stored(r.adjacency_lists, t))
            <=> \E j \in 1..r.pos : Src(r.input[j]) = t /\ Tgt(r.input[j]) = s

\* Processing the line l leaves every list as it was, but for the list of
\* the source of l, which gets the target of l at its end.
OnlySourceGrows(l) ==
    \A n \in KeySet(run.adjacency_lists) \cup KeySet(run'.adjacency_lists) \cup Ids :
        Stored(run'.adjacency_lists, n) =
            IF n = Src(l) THEN Append(Stored(run.adjacency_lists, n), Tgt(l))
            ELSE Stored(run.adjacency_lists, n)

\* C3 as stated: for every line (s,t,_) of a processed file, s is in the list
\* of t exactly when ANOTHER line of the file has source t and target s.
C3_SeparateLine ==
    Completed(run) =>
        \A i \in DOMAIN run.input :
            LET s == Src(run.input[i])
                t == Tgt(run.input[i])
            IN  Occurs(s, Stored(run.adjacency_lists, t))
                    <=> \E j \in DOMAIN run.input \ {i} :
                            Src(run.input[j]) = t /\ Tgt(run.input[j]) = s

\* C3, amended: processing a line (s,t,_) appends t to the list of s and
\* changes no other list; s is in the list of t exactly when some line has
\* source t and target s, which for a self-loop is the line itself.
C3_Directed ==
    [][LineRead => OnlySourceGrows(run.input[run.pos + 1]) /\ DirectedAt(run')]_vars

\* A self-loop on a and the edge a -> b: a lists itself, b does not list a.
C3_Witness ==
    /\ run.pc = "done"
    /\ Stored(run.adjacency_lists, a) = <<a, b>>
    /\ Contains(run.adjacency_lists, b)
    /\ Stored(run.adjacency_lists, b) = <<>>

HasBadLine(inp) == \E i \in DOMAIN inp : ~ThreeFields(inp[i])

\* The first line that has not exactly three fields.
FirstBadLine(inp) ==
    CHOOSE i \in DOMAIN inp :
        ~ThreeFields(inp[i]) /\ \A j \in 1..(i - 1) : ThreeFields(inp[j])

\* C4: when some line has not exactly three fields, the run never gets past
\* the first such line: there the only step is the fatal error, after which
\* nothing happens; the script never finishes normally and never writes
\* anything to standard output.
C4_MalformedLineIsFatal ==
    HasBadLine(run.input) =>
        LET j == FirstBadLine(run.input)
        IN  /\ run.pos < j
            /\ run.stdout = <<>>
            /\ run.pc \in {"build", "error"}
            /\ run.pc = "build" /\ run.pos = j - 1 => ENABLED Fail /\ ~ENABLED ProcessLine
            /\ run.pc = "error" => run.pos = j - 1 /\ ~ENABLED Next

\* The error strikes at a line of four fields, after two lines that were processed.
C4_Witness ==
    /\ run.pc = "error"
    /\ run.pos = 2
    /\ Len(run.input[3].fields) = 4
    /\ run.adjacency_lists # <<>>

\* C5: on a successful run standard output holds one line per key, each
\* ended by a newline; the line of the key n is n and then the elements of
\* the list of n, each after a single space, so that a key with an empty
\* list gives the line n alone.  The input a,b,x / b,c,y / a,c,x gives the
\* lines 'a b c', 'b c' and 'c'.
C5_OutputFormat ==
    run.pc = "done" =>
        LET d == run.adjacency_lists
            lines == OutLines(run.stdout)
        IN  /\ Terminated(run.stdout)
            /\ Len(lines) = Cardinality(KeySet(d))
            /\ {run.keys[i] : i \in DOMAIN run.keys} = KeySet(d)
            /\ Len(run.keys) = Len(lines)
            /\ \A i \in DOMAIN lines :
                  SplitOn(lines[i], " ") = <<run.keys[i]>> \o Stored(d, run.keys[i])
            /\ run.input = Scenario =>
                  /\ Len(lines) = 3
                  /\ {lines[i] : i \in DOMAIN lines}
                        = {<<"a", " ", "b", " ", "c">>, <<"b", " ", "c">>, <<"c">>}

\* The run over the scenario has finished.
C5_Witness == run.pc = "done" /\ run.input = Scenario

\* C6: processing a line whose source and target are the same identifier s
\* leaves one entry with the key s, creates an entry only if there was none,
\* and puts s once at the end of the list that was stored under s.
C6_SelfLoop ==
    [][LineRead /\ Src(run.input[run.pos + 1]) = Tgt(run.input[run.pos + 1]) =>
          LET s == Src(run.input[run.pos + 1])
              d == run.adjacency_lists
              e == run'.adjacency_lists
          IN  /\ Cardinality({i \in DOMAIN e : e[i].key = s}) = 1
              /\ Len(e) = Len(d) + (IF Contains(d, s) THEN 0 ELSE 1)
              /\ Stored(e, s) = Append(Stored(d, s), s)]_vars

\* Two self-loops on a: the second found the key and the list of the first.
C6_Witness ==
    /\ Len(run.adjacency_lists) = 1
    /\ Stored(run.adjacency_lists, a) = <<a, a>>

\* C7: on a file of zero bytes the run cannot fail, keeps the dict and
\* standard output empty, and goes on until it has ended with status 0.
C7_EmptyFile ==
    Len(run.file) = 0 =>
        /\ run.pc # "error"
        /\ run.adjacency_lists = <<>>
        /\ run.stdout = <<>>
        /\ run.pc = "done" \/ ENABLED Next

\* The run over the empty file has ended.
C7_Witness == Len(run.file) = 0 /\ run.pc = "done"

\* The first words of the lines written so far.
LineHeads(out) ==
    LET lines == OutLines(out) IN [i \in DOMAIN lines |-> SplitOn(lines[i], " ")[1]]

\* C8 as stated: the lines are written in the order in which the nodes were
\* first seen in the input, the source of a line before its target.
C8_InsertionOrder ==
    run.pc = "done" => LineHeads(run.stdout) = FirstSeen(run.input)

\* C8, amended: the dict gets its keys in the order in which the nodes are
\* first seen, the source of a line before its target; the lines are written
\* in the order in which keys() lists the keys, which holds each key once.
C8_KeysOrder ==
    /\ EntryKeys(run.adjacency_lists) = FirstSeen(Processed(run))
    /\ run.pc \in {"output", "done"} =>
          /\ Len(run.keys) = Len(run.adjacency_lists)
          /\ {run.keys[i] : i \in DOMAIN run.keys} = KeySet(run.adjacency_lists)
          /\ LineHeads(run.stdout) = SubSeq(run.keys, 1, run.written)
          /\ run.pc = "done" => run.written = Len(run.keys)

\* Three keys, written in an order that is not the order of their insertion.
C8_Witness ==
    /\ run.pc = "done"
    /\ Len(run.keys) = 3
    /\ run.keys # EntryKeys(run.adjacency_lists)
    /\ LineHeads(run.stdout) = run.keys

\* C9: two runs over files with the same number of lines that agree on the
\* source and the target of every line are in the same state at every step
\* but for the input: the same dict, the same keys, the same output.
C9_TypeIsDiscarded ==
    /\ run.adjacency_lists = twin.adjacency_lists
    /\ run.stdout = twin.stdout
    /\ run.keys = twin.keys
    /\ run.pc = twin.pc
    /\ run.pos = twin.pos
    /\ run.written = twin.written

\* Both runs have ended, over files that differ in the type of every line.
C9_Witness ==
    /\ run.pc = "done"
    /\ twin.pc = "done"
    /\ Len(run.input) = MaxLines
    /\ \A i \in DOMAIN run.input : run.input[i].fields[3] # twin.input[i].fields[3]
    /\ run.stdout # <<>>

\* C10: in every state, those after a fatal error included, every element
\* of every list is a key, and the lists hold as many elements together as
\* lines have been processed.
C10_Closure ==
    LET d == run.adjacency_lists
    IN  /\ \A i \in DOMAIN d : \A k \in DOMAIN d[i].val : Contains(d, d[i].val[k])
        /\ Total(d) = run.pos

\* A fatal error after two processed lines whose targets have no list of their own.
C10_Witness ==
    /\ run.pc = "error"
    /\ run.pos = 2
    /\ Total(run.adjacency_lists) = 2
    /\ \E n \in KeySet(run.adjacency_lists) : Stored(run.adjacency_lists, n) = <<>>

====
